---- MODULE Spec2Model ----
(***************************************************************************)
(* SaaS landing API (src/main.py): the three collections of the document   *)
(* store, the HTTP handlers that read and write them, and the password     *)
(* digest.  Handlers that make several storage calls are split at each     *)
(* storage call, so that requests served concurrently interleave there.    *)
(***************************************************************************)
EXTENDS Integers, Sequences, FiniteSets, TLC

\* ------------------------------------------------------------- bounds
MaxRequests == 3

\* the threads that serve requests at the same time
Workers == 1..2

\* ------------------------------------------------------------- inputs
Names == {"Ann", "Bob"}
Emails == {"ann@example.com", "bob@example.com"}
Messages == {"hello"}

\* The texts that are hashed, as their Unicode code points (TLC cannot take a
\* string apart).
CodePoints ==
  [ secret |-> <<115, 101, 99, 114, 101, 116>>,
    secreT |-> <<115, 101, 99, 114, 101, 84>> ]

Passwords == DOMAIN CodePoints

RegisterRequest == [name : Names, email : Emails, password : Passwords]
LoginRequest == [email : Emails, password : Passwords]
ContactRequest == [name : {"Ann"}, email : Emails, message : Messages]

\* ------------------------------------------------------------- sha256
\* hashlib.sha256(text.encode("utf-8")).hexdigest(), computed: UTF-8 encoding,
\* FIPS 180-4 padding, message schedule, 64 rounds, lowercase hex.  A 32-bit
\* word is a pair <<high 16 bits, low 16 bits>>.

RECURSIVE Utf8Encode(_)
Utf8Encode(cps) ==
  IF cps = << >> THEN << >>
  ELSE LET c == Head(cps)
           b == IF c < 128 THEN <<c>>
                ELSE IF c < 2048 THEN <<192 + (c \div 64), 128 + (c % 64)>>
                ELSE IF c < 65536
                     THEN <<224 + (c \div 4096), 128 + ((c \div 64) % 64), 128 + (c % 64)>>
                     ELSE <<240 + (c \div 262144), 128 + ((c \div 4096) % 64),
                            128 + ((c \div 64) % 64), 128 + (c % 64)>>
       IN b \o Utf8Encode(Tail(cps))

RECURSIVE Xor16(_, _, _)
Xor16(a, b, n) ==
  IF n = 0 THEN 0
  ELSE ((a + b) % 2) + (2 * Xor16(a \div 2, b \div 2, n - 1))

RECURSIVE And16(_, _, _)
And16(a, b, n) ==
  IF n = 0 THEN 0
  ELSE ((a % 2) * (b % 2)) + (2 * And16(a \div 2, b \div 2, n - 1))

WXor(x, y) == <<Xor16(x[1], y[1], 16), Xor16(x[2], y[2], 16)>>
WAnd(x, y) == <<And16(x[1], y[1], 16), And16(x[2], y[2], 16)>>
WNot(x) == <<65535 - x[1], 65535 - x[2]>>
WAdd(x, y) ==
  LET lo == x[2] + y[2]
  IN <<(x[1] + y[1] + (lo \div 65536)) % 65536, lo % 65536>>

RotR(x, n) ==
  LET hi == IF n >= 16 THEN x[2] ELSE x[1]
      lo == IF n >= 16 THEN x[1] ELSE x[2]
      k  == n % 16
  IN IF k = 0 THEN <<hi, lo>>
     ELSE <<(hi \div (2^k)) + ((lo % (2^k)) * (2^(16 - k))),
            (lo \div (2^k)) + ((hi % (2^k)) * (2^(16 - k)))>>

ShR(x, n) ==
  IF n >= 16 THEN <<0, x[1] \div (2^(n - 16))>>
  ELSE <<x[1] \div (2^n), (x[2] \div (2^n)) + ((x[1] % (2^n)) * (2^(16 - n)))>>

H0 == << <<27145, 58983>>, <<47975, 44677>>, <<15470, 62322>>, <<42319, 62778>>,
         <<20750, 21119>>, <<39685, 26764>>, <<8067, 55723>>, <<23520, 52505>> >>

K == << <<17034, 12184>>, <<28983, 17553>>, <<46528, 64463>>, <<59829, 56229>>, <<14678, 49755>>, <<23025, 4593>>, <<37439, 33444>>, <<43804, 24277>>, <<55303, 43672>>, <<4739, 23297>>, <<9265, 34238>>, <<21772, 32195>>, <<29374, 23924>>, <<32990, 45566>>, <<39900, 1703>>, <<49563, 61812>>, <<58523, 27073>>, <<61374, 18310>>, <<4033, 40390>>, <<9228, 41420>>, <<11753, 11375>>, <<19060, 33962>>, <<23728, 43484>>, <<30457, 35034>>, <<38974, 20818>>, <<43057, 50797>>, <<45059, 10184>>, <<48985, 32711>>, <<50912, 3059>>, <<54695, 37191>>, <<1738, 25425>>, <<5161, 10599>>, <<10167, 2693>>, <<11803, 8504>>, <<19756, 28156>>, <<21304, 3347>>, <<25866, 29524>>, <<30314, 2747>>, <<33218, 51502>>, <<37490, 11397>>, <<41663, 59553>>, <<43034, 26187>>, <<49739, 35696>>, <<51052, 20899>>, <<53650, 59417>>, <<54937, 1572>>, <<62478, 13701>>, <<4202, 41072>>, <<6564, 49430>>, <<7735, 27656>>, <<10056, 30540>>, <<13488, 48309>>, <<14620, 3251>>, <<20184, 43594>>, <<23452, 51791>>, <<26670, 28659>>, <<29839, 33518>>, <<30885, 25455>>, <<33992, 30740>>, <<36039, 520>>, <<37054, 65530>>, <<42064, 27883>>, <<48889, 41975>>, <<50801, 30962>> >>

Pad(bytes) ==
  LET n == Len(bytes)
      z == (119 - n) % 64
      bits == 8 * n
  IN bytes \o <<128>> \o [i \in 1..z |-> 0] \o <<0, 0, 0, 0>>
       \o <<(bits \div 16777216) % 256, (bits \div 65536) % 256,
            (bits \div 256) % 256, bits % 256>>

BlockWords(m, blk) ==
  [t \in 1..16 |->
     LET o == 64 * blk + 4 * (t - 1)
     IN <<256 * m[o + 1] + m[o + 2], 256 * m[o + 3] + m[o + 4]>>]

W(w, t) ==
  LET s0 == WXor(WXor(RotR(w[t - 15], 7), RotR(w[t - 15], 18)), ShR(w[t - 15], 3))
      s1 == WXor(WXor(RotR(w[t - 2], 17), RotR(w[t - 2], 19)), ShR(w[t - 2], 10))
  IN WAdd(WAdd(w[t - 16], s0), WAdd(w[t - 7], s1))

RECURSIVE Schedule(_, _)
Schedule(w, n) ==
  IF n = 0 THEN w
  ELSE IF n = 1 THEN Append(w, W(w, Len(w) + 1))
  ELSE LET half == Schedule(w, n \div 2)
       IN IF Len(half) > 0 THEN Schedule(half, n - (n \div 2)) ELSE half

Round(v, wt, kt) ==
  LET a == v[1]
      e == v[5]
      S1 == WXor(WXor(RotR(e, 6), RotR(e, 11)), RotR(e, 25))
      ch == WXor(WAnd(e, v[6]), WAnd(WNot(e), v[7]))
      t1 == WAdd(WAdd(WAdd(v[8], S1), WAdd(ch, kt)), wt)
      S0 == WXor(WXor(RotR(a, 2), RotR(a, 13)), RotR(a, 22))
      maj == WXor(WXor(WAnd(a, v[2]), WAnd(a, v[3])), WAnd(v[2], v[3]))
      t2 == WAdd(S0, maj)
  IN <<WAdd(t1, t2), a, v[2], v[3], WAdd(v[4], t1), e, v[6], v[7]>>

RECURSIVE Rounds(_, _, _, _)
Rounds(v, w, lo, hi) ==
  IF lo = hi THEN Round(v, w[lo], K[lo])
  ELSE LET mid == (lo + hi) \div 2
           half == Rounds(v, w, lo, mid)
       IN IF Len(half) > 0 THEN Rounds(half, w, mid + 1, hi) ELSE half

RECURSIVE Compress(_, _, _)
Compress(h, m, blk) ==
  IF 64 * blk >= Len(m) THEN h
  ELSE LET v == Rounds(h, Schedule(BlockWords(m, blk), 48), 1, 64)
       IN Compress([i \in 1..8 |-> WAdd(h[i], v[i])], m, blk + 1)

HexDigit == <<"0", "1", "2", "3", "4", "5", "6", "7", "8", "9", "a", "b", "c", "d", "e", "f">>
Hex16(n) == HexDigit[(n \div 4096) + 1] \o HexDigit[((n \div 256) % 16) + 1]
              \o HexDigit[((n \div 16) % 16) + 1] \o HexDigit[(n % 16) + 1]
RECURSIVE HexDigest(_)
HexDigest(h) ==
  IF h = << >> THEN ""
  ELSE Hex16(Head(h)[1]) \o Hex16(Head(h)[2]) \o HexDigest(Tail(h))

\* mutant of sha256: the text is lower-cased before it is hashed
sha256_lowercased(text) ==
  LET lower == [i \in DOMAIN CodePoints[text] |->
                  IF CodePoints[text][i] \in 65..90
                  THEN CodePoints[text][i] + 32 ELSE CodePoints[text][i]]
  IN HexDigest(Compress(H0, Pad(Utf8Encode(lower)), 0))

sha256(text) == HexDigest(Compress(H0, Pad(Utf8Encode(CodePoints[text])), 0))

\* The digest of every input text, computed once.
Digests == [t \in Passwords |-> sha256(t)]

\* ------------------------------------------------------------- constants
DefaultLimit == 6
Limits == {DefaultLimit}
ErrorTruncation == 80
DatabaseName == "appdb"

samples ==
  << [ title |-> "Designing With Pastels: A Gentle UI Aesthetic",
       slug |-> "designing-with-pastels",
       excerpt |-> "How soft color palettes can increase trust and readability in fintech apps.",
       content |-> "<p>Pastels bring calm to complex financial interfaces...</p>",
       author |-> "Team",
       tags |-> <<"design", "ux">> ],
     [ title |-> "Pricing Psychology for SaaS",
       slug |-> "pricing-psychology-saas",
       excerpt |-> "Anchoring, decoys and how to present value tiers.",
       content |-> "<p>Great pricing pages tell a story of value...</p>",
       author |-> "Team",
       tags |-> <<"growth", "pricing">> ],
     [ title |-> "Frictionless Onboarding",
       slug |-> "frictionless-onboarding",
       excerpt |-> "Best practices for sign-up and authentication flows.",
       content |-> "<p>Every extra field reduces conversions...</p>",
       author |-> "Team",
       tags |-> <<"product", "auth">> ] >>

SeededSlugs == {samples[i].slug : i \in DOMAIN samples}
Slugs == SeededSlugs \cup {"no-such-post"}
\* the slugs the modelled clients ask for
RequestedSlugs == {"designing-with-pastels", "no-such-post"}

\* What list_collection_names() may raise, as the characters of str(e): a
\* message longer than the truncation.
StorageErrors == { [i \in 1..(ErrorTruncation + 3) |-> 120] }
NoError == << >>

\* ------------------------------------------------------------- state
VARIABLES
  db,              \* TRUE: the database handle is live; FALSE: it is None
  serial,          \* TRUE: the server takes a request only when none is in progress
  started,         \* the number of requests received
  user,            \* collection "user", in insertion order
  blogpost,        \* collection "blogpost", in insertion order
  contactmessage,  \* collection "contactmessage", in insertion order
  pc,              \* per worker: where its request stands
  frame,           \* per worker: the locals of the request it is serving
  reply,           \* the last HTTP exchange completed: request and response
  registered       \* the successful registrations: what was asked and returned

vars == <<db, serial, started, user, blogpost, contactmessage, pc, frame, reply, registered>>
store == <<user, blogpost, contactmessage>>

None == [none |-> TRUE]

\* os.getenv("DATABASE_URL"): the connection string the handle was opened from
DATABASE_URL == db

\* datetime.utcnow(): a logical clock, the number of requests received so far
utcnow == started

Min(S) == CHOOSE m \in S : \A n \in S : m <= n

\* mutant of find_one: the lookup never matches
find_one_nothing(collection, key, value) == None

\* collection.find_one({key: value}): the first match in natural order, or None
find_one(collection, key, value) ==
  LET hits == {i \in DOMAIN collection : collection[i][key] = value}
  IN IF hits = {} THEN None ELSE collection[Min(hits)]

\* mutant of count_documents: the count is never seen above zero
count_documents_zero(collection) == 0

\* collection.count_documents({})
count_documents(collection) == Len(collection)

\* create_document(collection, data) on a live database: the document is stored
\* under a fresh id with its creation time
ObjectId(name, collection) == <<name, Len(collection) + 1>>
str(oid) == oid[1] \o "-" \o ToString(oid[2])

create_document(name, collection, data) ==
  Append(collection, [_id |-> ObjectId(name, collection), created_at |-> utcnow] @@ data)

\* get_documents(collection, {}, limit): up to limit documents in natural
\* order; nothing without a database
get_documents(collection, limit) ==
  IF db THEN SubSeq(collection, 1, IF limit < Len(collection) THEN limit ELSE Len(collection))
  ELSE << >>

Response(op, request, status, body) ==
  [op |-> op, request |-> request, status |-> status, body |-> body]

HTTPException(op, request, status_code, detail) ==
  Response(op, request, status_code, [detail |-> detail])

\* create_document without a database raises; the request fails
StorageUnavailable(op, request) ==
  HTTPException(op, request, 500, "Internal Server Error")

Idle == [op |-> "none"]

Init ==
  /\ db \in BOOLEAN
  /\ serial \in BOOLEAN
  /\ started = 0
  /\ user = << >>
  /\ blogpost = << >>
  /\ contactmessage = << >>
  /\ pc = [w \in Workers |-> "idle"]
  /\ frame = [w \in Workers |-> Idle]
  /\ reply = Response("none", None, 0, None)
  /\ registered = {}

\* ------------------------------------------------------------- handlers
\* the next request goes to the first idle worker (workers are interchangeable);
\* a serial server takes it only when no request is in progress
Receive(w) ==
  /\ pc[w] = "idle"
  /\ \A v \in Workers : pc[v] = "idle" => w <= v
  /\ serial => \A v \in Workers : pc[v] = "idle"
  /\ started < MaxRequests
  /\ started' = started + 1

test_database(w, error) ==
  /\ Receive(w)
  /\ LET response == [ backend |-> "Running",
                       database |-> "Not Available",
                       database_url |-> "Not Set",
                       database_name |-> "Not Set",
                       connection_status |-> "Not Connected",
                       collections |-> << >> ]
         connected == [ response EXCEPT
                          !.database_url = IF DATABASE_URL THEN "Set" ELSE "Not Set",
                          !.database_name = DatabaseName,
                          !.connection_status = "Connected" ]
         names == (IF user # << >> THEN <<"user">> ELSE << >>)
                    \o (IF blogpost # << >> THEN <<"blogpost">> ELSE << >>)
                    \o (IF contactmessage # << >> THEN <<"contactmessage">> ELSE << >>)
         cut == IF Len(error) < ErrorTruncation THEN Len(error) ELSE ErrorTruncation
     IN reply' = Response("test", None, 200,
          IF ~db THEN response
          ELSE IF error = NoError
            THEN [connected EXCEPT !.collections = names,
                                   !.database = "Connected & Working"]
            ELSE [connected EXCEPT
                    !.database = <<"Connected but Error: ", SubSeq(error, 1, cut)>>])
  /\ UNCHANGED <<db, serial, store, pc, frame, registered>>

\* register, up to the duplicate check
register(w, payload) ==
  /\ Receive(w)
  /\ LET existing == IF db THEN find_one(user, "email", payload.email) ELSE None
     IN IF existing # None
        THEN /\ reply' = HTTPException("register", payload, 400, "Email already registered")
             /\ UNCHANGED <<pc, frame>>
        ELSE /\ pc' = [pc EXCEPT ![w] = "create_user"]
             /\ frame' = [frame EXCEPT ![w] =
                  [ op |-> "register",
                    payload |-> payload,
                    user_doc |-> [ name |-> payload.name,
                                   email |-> payload.email,
                                   password_hash |-> Digests[payload.password],
                                   plan |-> "free",
                                   is_active |-> TRUE ] ]]
             /\ UNCHANGED reply
  /\ UNCHANGED <<db, serial, store, registered>>

\* register, from create_document to the return
register_create(w) ==
  /\ pc[w] = "create_user"
  /\ LET payload == frame[w].payload
         body == [ id |-> str(ObjectId("user", user)), name |-> payload.name,
                   email |-> payload.email, plan |-> "free" ]
     IN IF db
        THEN /\ user' = create_document("user", user, frame[w].user_doc)
             /\ reply' = Response("register", payload, 200, body)
             /\ registered' = registered \cup {body @@ [password |-> payload.password]}
        ELSE /\ reply' = StorageUnavailable("register", payload)
             /\ UNCHANGED <<user, registered>>
  /\ pc' = [pc EXCEPT ![w] = "idle"]
  /\ frame' = [frame EXCEPT ![w] = Idle]
  /\ UNCHANGED <<db, serial, started, blogpost, contactmessage>>

\* mutant of login_response: an unknown email is told apart from a wrong password
login_response_enumerating(payload) ==
  LET found == IF db THEN find_one(user, "email", payload.email) ELSE None
  IN IF found = None
     THEN HTTPException("login", payload, 404, "User not found")
     ELSE IF found.password_hash # Digests[payload.password]
     THEN HTTPException("login", payload, 401, "Invalid credentials")
     ELSE Response("login", payload, 200,
            [ id |-> str(found._id), name |-> found.name,
              email |-> found.email, plan |-> found.plan ])

\* what login answers to payload in the current state
login_response(payload) ==
  LET found == IF db THEN find_one(user, "email", payload.email) ELSE None
  IN IF found = None \/ found.password_hash # Digests[payload.password]
     THEN HTTPException("login", payload, 401, "Invalid credentials")
     ELSE Response("login", payload, 200,
            [ id |-> str(found._id), name |-> found.name,
              email |-> found.email, plan |-> found.plan ])

login(w, payload) ==
  /\ Receive(w)
  /\ reply' = login_response(payload)
  /\ UNCHANGED <<db, serial, store, pc, frame, registered>>

\* mutant of list_blog: seeding does not ask whether there is a database
list_blog_unguarded(w, limit) ==
  /\ Receive(w)
  /\ LET count == IF db THEN count_documents(blogpost) ELSE 0
     IN IF count = 0
        THEN /\ pc' = [pc EXCEPT ![w] = "seeding"]
             /\ frame' = [frame EXCEPT ![w] =
                  [ op |-> "list_blog", limit |-> limit, i |-> 1,
                    samples |-> [i \in DOMAIN samples |->
                                   samples[i] @@ [published_at |-> utcnow]] ]]
        ELSE /\ pc' = [pc EXCEPT ![w] = "listing"]
             /\ frame' = [frame EXCEPT ![w] = [op |-> "list_blog", limit |-> limit]]
  /\ UNCHANGED <<db, serial, store, reply, registered>>

\* list_blog, up to the count check of ensure_sample_blog_posts
list_blog(w, limit) ==
  /\ Receive(w)
  /\ LET count == IF db THEN count_documents(blogpost) ELSE 0
     IN IF count = 0 /\ db
        THEN /\ pc' = [pc EXCEPT ![w] = "seeding"]
             /\ frame' = [frame EXCEPT ![w] =
                  [ op |-> "list_blog", limit |-> limit, i |-> 1,
                    samples |-> [i \in DOMAIN samples |->
                                   samples[i] @@ [published_at |-> utcnow]] ]]
        ELSE /\ pc' = [pc EXCEPT ![w] = "listing"]
             /\ frame' = [frame EXCEPT ![w] = [op |-> "list_blog", limit |-> limit]]
  /\ UNCHANGED <<db, serial, store, reply, registered>>

\* one turn of the loop of ensure_sample_blog_posts
ensure_sample_blog_posts(w) ==
  /\ pc[w] = "seeding"
  /\ blogpost' = create_document("blogpost", blogpost, frame[w].samples[frame[w].i])
  /\ IF frame[w].i < Len(frame[w].samples)
     THEN /\ frame' = [frame EXCEPT ![w].i = @ + 1]
          /\ UNCHANGED pc
     ELSE /\ frame' = [frame EXCEPT ![w] = [op |-> "list_blog", limit |-> frame[w].limit]]
          /\ pc' = [pc EXCEPT ![w] = "listing"]
  /\ UNCHANGED <<db, serial, started, user, contactmessage, reply, registered>>

\* list_blog, from get_documents to the return
list_blog_respond(w) ==
  /\ pc[w] = "listing"
  /\ LET docs == get_documents(blogpost, frame[w].limit)
         items == [k \in DOMAIN docs |->
                     [ title |-> docs[k].title, slug |-> docs[k].slug,
                       excerpt |-> docs[k].excerpt, author |-> docs[k].author,
                       published_at |-> docs[k].published_at, tags |-> docs[k].tags ]]
     IN reply' = Response("list_blog", frame[w].limit, 200, [posts |-> items])
  /\ pc' = [pc EXCEPT ![w] = "idle"]
  /\ frame' = [frame EXCEPT ![w] = Idle]
  /\ UNCHANGED <<db, serial, started, store, registered>>

\* mutant of get_blog_response: the post is returned as in the list view
get_blog_response_listed(slug) ==
  LET doc == IF db THEN find_one(blogpost, "slug", slug) ELSE None
  IN IF doc = None
     THEN HTTPException("get_blog", slug, 404, "Post not found")
     ELSE Response("get_blog", slug, 200,
            [ title |-> doc.title, slug |-> doc.slug, excerpt |-> doc.excerpt,
              author |-> doc.author, published_at |-> doc.published_at,
              tags |-> doc.tags ])

\* what get_blog answers to slug in the current state
get_blog_response(slug) ==
  LET doc == IF db THEN find_one(blogpost, "slug", slug) ELSE None
  IN IF doc = None
     THEN HTTPException("get_blog", slug, 404, "Post not found")
     ELSE Response("get_blog", slug, 200,
            [ title |-> doc.title, slug |-> doc.slug, excerpt |-> doc.excerpt,
              content |-> doc.content, author |-> doc.author,
              published_at |-> doc.published_at, tags |-> doc.tags ])

get_blog(w, slug) ==
  /\ Receive(w)
  /\ reply' = get_blog_response(slug)
  /\ UNCHANGED <<db, serial, store, pc, frame, registered>>

\* mutant of contact: the message is stored as already read
contact_read(w, payload) ==
  /\ Receive(w)
  /\ LET doc == [ name |-> payload.name, email |-> payload.email,
                  message |-> payload.message, status |-> "read" ]
     IN IF db
        THEN /\ contactmessage' = create_document("contactmessage", contactmessage, doc)
             /\ reply' = Response("contact", payload, 200,
                           [id |-> str(ObjectId("contactmessage", contactmessage)), status |-> "received"])
        ELSE /\ reply' = StorageUnavailable("contact", payload)
             /\ UNCHANGED contactmessage
  /\ UNCHANGED <<db, serial, user, blogpost, pc, frame, registered>>

contact(w, payload) ==
  /\ Receive(w)
  /\ LET doc == [ name |-> payload.name, email |-> payload.email,
                  message |-> payload.message, status |-> "new" ]
     IN IF db
        THEN /\ contactmessage' = create_document("contactmessage", contactmessage, doc)
             /\ reply' = Response("contact", payload, 200,
                           [id |-> str(ObjectId("contactmessage", contactmessage)), status |-> "received"])
        ELSE /\ reply' = StorageUnavailable("contact", payload)
             /\ UNCHANGED contactmessage
  /\ UNCHANGED <<db, serial, user, blogpost, pc, frame, registered>>

Serve(w) ==
  \/ \E error \in StorageErrors \cup {NoError} : test_database(w, error)
  \/ \E payload \in RegisterRequest : register(w, payload)
  \/ register_create(w)
  \/ \E payload \in LoginRequest : login(w, payload)
  \/ \E limit \in Limits : list_blog(w, limit)
  \/ ensure_sample_blog_posts(w)
  \/ list_blog_respond(w)
  \/ \E slug \in RequestedSlugs : get_blog(w, slug)
  \/ \E payload \in ContactRequest : contact(w, payload)

Next == \E w \in Workers : Serve(w)

Spec == Init /\ [][Next]_vars

\* ------------------------------------------------------------- properties
Emailed(collection, email) == {i \in DOMAIN collection : collection[i].email = email}
Slugged(slug) == {i \in DOMAIN blogpost : blogpost[i].slug = slug}
Listed(doc) ==
  [ title |-> doc.title, slug |-> doc.slug, excerpt |-> doc.excerpt,
    author |-> doc.author, published_at |-> doc.published_at, tags |-> doc.tags ]

\* C1: with a live database, a register call for an email that no earlier call
\* has registered passes the duplicate check and its insert returns id, name,
\* email and plan "free"; a register call for an email that an earlier call
\* has registered fails with 400 and leaves the user collection as it was.
C1_RegisterTwice ==
  [][\A w \in Workers :
       /\ \A payload \in RegisterRequest :
            (db /\ register(w, payload)) =>
              IF \E r \in registered : r.email = payload.email
              THEN /\ reply' = HTTPException("register", payload, 400,
                                             "Email already registered")
                   /\ pc'[w] = "idle"
                   /\ user' = user
              ELSE /\ pc'[w] = "create_user"
                   /\ user' = user
       /\ (db /\ register_create(w)) =>
            LET payload == frame[w].payload
                doc == user'[Len(user')]
            IN /\ Len(user') = Len(user) + 1
               /\ SubSeq(user', 1, Len(user)) = user
               /\ doc.name = payload.name /\ doc.email = payload.email
               /\ reply' = Response("register", payload, 200,
                             [ id |-> str(doc._id), name |-> payload.name,
                               email |-> payload.email, plan |-> "free" ])
               /\ pc'[w] = "idle"
    ]_vars

\* C1 witness: the second call for an email, with another name and password,
\* was answered 400 and the collection holds the first call's user only.
C1_Witness ==
  /\ db /\ serial
  /\ reply.op = "register" /\ reply.status = 400
  /\ Len(user) = 1
  /\ \E r \in registered :
       /\ r.email = reply.request.email
       /\ r.name # reply.request.name
       /\ r.password # reply.request.password
       /\ user[1].email = r.email /\ user[1].name = r.name

\* C2: the user collection holds at most one document per email address, for
\* every interleaving of concurrent register requests.
C2_UniqueEmail ==
  \A i, j \in DOMAIN user : user[i].email = user[j].email => i = j

\* C3: once a registration has succeeded, a login with its email and password
\* succeeds and returns the id, name, email and plan the registration returned.
C3_LoginAfterRegister ==
  \A r \in registered :
    LET payload == [email |-> r.email, password |-> r.password]
    IN login_response(payload) =
         Response("login", payload, 200,
           [id |-> r.id, name |-> r.name, email |-> r.email, plan |-> r.plan])

\* C4: a login fails with 401 "Invalid credentials" when no user has the email
\* and when users have it but none with the digest of the password given; the
\* answer to a failed login is the same in both cases, and a login changes no
\* stored state.
C4_UniformLoginFailure ==
  [][\A w \in Workers : \A payload \in LoginRequest :
       login(w, payload) =>
         LET holders == Emailed(user, payload.email)
             failed == reply'.status # 200
         IN /\ user' = user /\ blogpost' = blogpost
            /\ contactmessage' = contactmessage /\ registered' = registered
            /\ holders = {} => failed
            /\ (\A i \in holders :
                  user[i].password_hash # Digests[payload.password]) => failed
            /\ failed => /\ reply'.status = 401
                         /\ reply'.body = [detail |-> "Invalid credentials"]
    ]_vars

\* C4 witness: a login with a registered email and a wrong password was refused.
C4_Witness ==
  /\ reply.op = "login" /\ reply.status = 401
  /\ Emailed(user, reply.request.email) # {}

\* C5: with a live database and requests served one after the other, a
\* list_blog call with the default limit returns the three seeded posts, with
\* pairwise distinct slugs and no content field, and the collection holds
\* exactly these three posts however many list_blog calls were made.
C5_SeededOnce ==
  (db /\ serial /\ reply.op = "list_blog" /\ reply.request = DefaultLimit) =>
    LET posts == reply.body.posts
    IN /\ Len(blogpost) = 3
       /\ Len(posts) = 3
       /\ \A k \in 1..3 :
            /\ blogpost[k] = [_id |-> <<"blogpost", k>>,
                              created_at |-> blogpost[k].created_at,
                              published_at |-> blogpost[1].published_at] @@ samples[k]
            /\ posts[k] = Listed(blogpost[k])
            /\ "content" \notin DOMAIN posts[k]
       /\ \A k, l \in 1..3 : posts[k].slug = posts[l].slug => k = l

\* C5 witness: a list_blog call has returned the three posts and a later
\* list_blog call has made its count check.
C5_Witness ==
  /\ db /\ serial
  /\ reply.op = "list_blog" /\ Len(reply.body.posts) = 3
  /\ \E w \in Workers : pc[w] = "listing"
  /\ Len(blogpost) = 3

\* C6: for every interleaving of concurrent list_blog requests against an empty
\* blogpost collection, no two stored posts have the same slug (and so the
\* collection ends with three posts).
C6_SeedingIdempotent ==
  \A i, j \in DOMAIN blogpost : blogpost[i].slug = blogpost[j].slug => i = j

\* C7 as stated: with a live database, in every reachable state get_blog
\* returns the full record for each of the three seeded slugs.
C7_SeededAlwaysFound ==
  db => \A k \in DOMAIN samples :
          /\ get_blog_response(samples[k].slug).status = 200
          /\ get_blog_response(samples[k].slug).body.content = samples[k].content

\* C7 amended: with a live database, get_blog(slug) returns, for a slug that a
\* stored post has, the full record of the first such post, content included
\* (the seed's body for a seeded slug); for a slug no stored post has, the
\* seeded slugs before they are inserted among them, it fails with 404; and
\* get_blog never changes the blogpost collection.
C7_GetBlog ==
  /\ [](db => \A slug \in Slugs :
          LET r == get_blog_response(slug)
          IN IF Slugged(slug) = {}
             THEN r.status = 404 /\ r.body = [detail |-> "Post not found"]
             ELSE /\ r.status = 200
                  /\ \E i \in Slugged(slug) :
                       r.body = [content |-> blogpost[i].content] @@ Listed(blogpost[i])
                  /\ \A k \in DOMAIN samples :
                       samples[k].slug = slug => r.body.content = samples[k].content)
  /\ [][\A w \in Workers : \A slug \in RequestedSlugs :
          get_blog(w, slug) => (blogpost' = blogpost /\ reply' = get_blog_response(slug))
       ]_vars

\* C7 witness: get_blog has returned a seeded post with its content.
C7_Witness ==
  /\ db
  /\ reply.op = "get_blog" /\ reply.status = 200
  /\ reply.request = "designing-with-pastels"
  /\ reply.body.content = "<p>Pastels bring calm to complex financial interfaces...</p>"

\* C8: every user document holds the digest of the password given at its
\* registration and no field of it holds the password; the digest is the
\* SHA-256 hex digest, which differs for "secret" and "secreT"; login accepts
\* exactly the passwords whose digest is the stored one.
C8_PasswordDigest ==
  /\ Digests["secret"] = "2bb80d537b1da3e38bd30361aa855686bde0eacd7162fef6a25fe97bf527a25b"
  /\ Digests["secret"] # Digests["secreT"]
  /\ \A i \in DOMAIN user :
       /\ DOMAIN user[i] = {"_id", "created_at", "name", "email",
                            "password_hash", "plan", "is_active"}
       /\ \E r \in registered :
            /\ r.id = str(user[i]._id)
            /\ user[i].password_hash = Digests[r.password]
            /\ \A f \in {"name", "email", "password_hash", "plan"} :
                 user[i][f] # r.password
  /\ \A payload \in LoginRequest :
       LET holders == Emailed(user, payload.email)
       IN login_response(payload).status = 200 <=>
            /\ holders # {}
            /\ \E r \in registered :
                 /\ r.id = str(user[Min(holders)]._id)
                 /\ r.password = payload.password

\* C8 witness: a user registered with "secret" was refused a login with "secreT".
C8_Witness ==
  /\ reply.op = "login" /\ reply.status = 401
  /\ reply.request.password = "secreT"
  /\ \E r \in registered :
       /\ r.email = reply.request.email /\ r.password = "secret"
       /\ Emailed(user, r.email) # {}

\* C9: with a live database, a contact call adds one document with the three
\* fields given and status "new" to the contactmessage collection, returns that
\* document's non-empty id with status "received", and leaves the user and
\* blogpost collections unchanged.
C9_ContactStored ==
  [][\A w \in Workers : \A payload \in ContactRequest :
       (db /\ contact(w, payload)) =>
         LET doc == contactmessage'[Len(contactmessage')]
         IN /\ Len(contactmessage') = Len(contactmessage) + 1
            /\ SubSeq(contactmessage', 1, Len(contactmessage)) = contactmessage
            /\ doc.name = payload.name /\ doc.email = payload.email
            /\ doc.message = payload.message /\ doc.status = "new"
            /\ reply'.status = 200
            /\ reply'.body = [id |-> str(doc._id), status |-> "received"]
            /\ reply'.body.id # ""
            /\ \A k \in 1..Len(contactmessage) : contactmessage[k]._id # doc._id
            /\ user' = user /\ blogpost' = blogpost
    ]_vars

\* C9 witness: a contact message was stored beside users and blog posts.
C9_Witness ==
  /\ db
  /\ reply.op = "contact" /\ reply.status = 200
  /\ contactmessage # << >> /\ user # << >> /\ blogpost # << >>

\* C10: without a database every login fails with 401, every get_blog with 404,
\* list_blog seeds nothing and lists nothing, the duplicate check of register
\* finds no user, /test reports the database as not available with no
\* collections, and the collections stay as they were.
C10_NoDatabase ==
  ~db =>
    /\ user = << >> /\ blogpost = << >> /\ contactmessage = << >>
    /\ registered = {}
    /\ \A payload \in LoginRequest : login_response(payload).status = 401
    /\ \A slug \in Slugs : get_blog_response(slug).status = 404
    /\ \A w \in Workers : pc[w] # "seeding"
    /\ reply.op = "login" => reply.status = 401
    /\ reply.op = "get_blog" => reply.status = 404
    /\ reply.op = "list_blog" => reply.body.posts = << >>
    /\ reply.op = "register" => reply.status # 400
    /\ reply.op = "test" =>
         /\ reply.status = 200
         /\ reply.body.database = "Not Available"
         /\ reply.body.collections = << >>

\* C10 witness: without a database, /test has answered while a register call
\* that passed its duplicate check and a list_blog call were being served.
C10_Witness ==
  /\ ~db
  /\ reply.op = "test"
  /\ \E w \in Workers : pc[w] \in {"create_user", "listing"}

====
